---- MODULE Spec2Model ----
(***************************************************************************)
(* A model of librarium's rental core: the rental domain functions (Rent,  *)
(* Return, Extend), the customer lifecycle, and the HTTP handlers of       *)
(* RentalController and CustomerController running against the repository  *)
(* contracts declared by the domain packages; the authentication, the      *)
(* middleware chain of the router, the shutdown of the application, and    *)
(* the filters of the query layer.                                         *)
(*                                                                         *)
(* The specifications share the variables:                                 *)
(*   DomainSpec        the domain functions applied to drawn inputs        *)
(*   Spec              every rental handler, one request at a time         *)
(*   RentSpec          POST /rentals served by concurrent request tasks    *)
(*   AssetSpec         POST /rentals of two customers for one asset        *)
(*   ReturnExtendSpec  return and extend served by concurrent tasks        *)
(*   SuspendRentSpec   POST /rentals and suspend served concurrently       *)
(*   RentReturnSpec    rent and return cycles of one customer              *)
(*   HttpSpec          requests through the middleware chain               *)
(*   SignupSpec        POST /signup served by concurrent request tasks     *)
(*   ShutdownSpec      Application.Run from the termination signal on      *)
(*   QuerySpec         FiltersFromHTTPRequest on drawn query strings       *)
(***************************************************************************)
EXTENDS Integers, Sequences, FiniteSets, TLC

VARIABLES
    now,        \* the wall clock read by time.Now()
    customers,  \* customers table: customer id -> Customer
    rentals,    \* rentals table: sequence of Rental rows, in insertion order
    pc,         \* per request task: the handler step it is at
    req,        \* per request task: the request being served
    loc,        \* per request task: the handler's local variables
    resp,       \* per request task: the response to its last request
    extended,   \* history: rental id -> number of 204 answers to extend
    dcust,      \* domain harness: the customer handed to Rent
    din,        \* domain harness: the other arguments handed to Rent
    drental,    \* domain harness: the rental the calls operate on
    dcall,      \* domain harness: the last domain call and its outcome
    librarians, \* librarians table: sequence of Librarian rows
    app         \* the application process: its step, flags and timers

sysvars == <<customers, rentals, pc, req, loc, resp, extended>>
domvars == <<dcust, din, drental, dcall>>
infravars == <<librarians, app>>
vars == <<now, customers, rentals, pc, req, loc, resp, extended,
          dcust, din, drental, dcall, librarians, app>>

---------------------------------------------------------------------------
(* Bounds of the model *)

\* ticks of the clock within one day
MaxTick == 1
\* longest customerRentals slice handed to Rent by the domain harness
MaxListLen == 5
\* rows the rentals table may hold in Spec and SeqSpec
MaxRentals == 2

---------------------------------------------------------------------------
(* Values *)

\* a nil pointer
Nil == [nil |-> TRUE]
\* a nil error
NoErr == ""

Customers == {"c1", "c2"}
Assets == {"a1", "a2", "a3"}
Procs == {"p1", "p2"}
SeqProcs == {"p1"}

RentalStatusActive == "ACTIVE"
RentalStatusReturned == "RETURNED"
RentalStatusOverdue == "OVERDUE"
RentalStatuses == {RentalStatusActive, RentalStatusReturned, RentalStatusOverdue}

CustomerStatusActive == "ACTIVE"
CustomerStatusSuspended == "SUSPENDED"

maxNumberOfRentals == 5
maxNumberOfExtendedMonths == 3

ErrAssetRented == "catalog asset already rented"
ErrMaxRentals == "customer max number of rentals reached"
ErrOverdue == "the customer has already a rental in overdue"
ErrSuspended == "cannot rent the asset, customer is suspended"
ErrAlreadyReturned == "the rental is already returned"
ErrExtendLimit == "extend max months reached"
ErrAlreadySuspended == "customer already suspended"
ErrNotSuspended == "customer should be suspended to be unsuspend"
ErrCustomerFields == "customer field is mandatory"

---------------------------------------------------------------------------
(* Time: an instant is [mon, day, tk]: mon counts months from January 2024 *)
(* (a leap year), day is the day of the month, tk the instant in the day.  *)

IsLeap(y) == (y % 4 = 0 /\ y % 100 # 0) \/ y % 400 = 0

DaysIn(mon) ==
    LET m == mon % 12
        y == 2024 + (mon \div 12)
    IN  IF m = 1 THEN (IF IsLeap(y) THEN 29 ELSE 28)
        ELSE IF m \in {3, 5, 8, 10} THEN 30
        ELSE 31

\* time.Time.AddDate(0, months, 0): the month is advanced and a day past the
\* end of the resulting month overflows into the month after it
\* (October 31 + 1 month = December 1).
AddDate(t, months) ==
    LET m == t.mon + months
    IN  IF t.day > DaysIn(m)
        THEN [mon |-> m + 1, day |-> t.day - DaysIn(m), tk |-> t.tk]
        ELSE [mon |-> m, day |-> t.day, tk |-> t.tk]

\* time.Time.After
After(a, b) ==
    \/ a.mon > b.mon
    \/ a.mon = b.mon /\ a.day > b.day
    \/ a.mon = b.mon /\ a.day = b.day /\ a.tk > b.tk

\* the instant after t that the clock can show next
NextInstant(t) == [t EXCEPT !.tk = t.tk + 1]

\* the first instant of the day after t
DayAfter(t) ==
    IF t.day + 1 > DaysIn(t.mon)
    THEN [mon |-> t.mon + 1, day |-> 1, tk |-> 0]
    ELSE [mon |-> t.mon, day |-> t.day + 1, tk |-> 0]

\* the second of two consecutive time.Now() readings: the same instant, or a
\* later one when the clock moved between the two calls
SecondReadings(t) == {t} \cup (IF t.tk < MaxTick THEN {NextInstant(t)} ELSE {})

---------------------------------------------------------------------------
(* internal/user *)

\* BuildCustomer: validates the fields and returns the customer; the Status
\* field is not among the fields it sets, so it holds the zero value.
BuildCustomer(id, fieldsPresent) ==
    IF ~fieldsPresent
    THEN [err |-> ErrCustomerFields, customer |-> Nil]
    ELSE [err |-> NoErr, customer |-> [ID |-> id, Status |-> ""]]

\* Customer.Suspend without the check for a customer that is already suspended
SuspendUnchecked(c) ==
    [err |-> NoErr, customer |-> [c EXCEPT !.Status = CustomerStatusSuspended]]

\* Customer.Suspend
Suspend(c) ==
    IF c.Status = CustomerStatusSuspended
    THEN [err |-> ErrAlreadySuspended, customer |-> c]
    ELSE [err |-> NoErr, customer |-> [c EXCEPT !.Status = CustomerStatusSuspended]]

\* Customer.Unsuspend
Unsuspend(c) ==
    IF c.Status # CustomerStatusSuspended
    THEN [err |-> ErrNotSuspended, customer |-> c]
    ELSE [err |-> NoErr, customer |-> [c EXCEPT !.Status = CustomerStatusActive]]

---------------------------------------------------------------------------
(* internal/rental *)

HasOverdue(customerRentals) ==
    \E i \in 1..Len(customerRentals) : customerRentals[i].Status = RentalStatusOverdue

\* Rent with the rental limit checked before the active rental
RentLimitFirst(customer, asset, activeRental, customerRentals, id, t1, t2) ==
    IF Len(customerRentals) >= maxNumberOfRentals
    THEN [err |-> ErrMaxRentals, rental |-> Nil]
    ELSE IF activeRental # Nil
    THEN [err |-> ErrAssetRented, rental |-> Nil]
    ELSE IF HasOverdue(customerRentals)
    THEN [err |-> ErrOverdue, rental |-> Nil]
    ELSE IF customer.Status = CustomerStatusSuspended
    THEN [err |-> ErrSuspended, rental |-> Nil]
    ELSE [err |-> NoErr,
          rental |-> [ID |-> id,
                      CustomerID |-> customer.ID,
                      AssetID |-> asset.ID,
                      RentedAt |-> t1,
                      DueAt |-> AddDate(t2, 1),
                      ReturnedAt |-> Nil,
                      Status |-> RentalStatusActive]]

\* Rent without the check of the customer's suspension
RentIgnoresSuspension(customer, asset, activeRental, customerRentals, id, t1, t2) ==
    IF activeRental # Nil
    THEN [err |-> ErrAssetRented, rental |-> Nil]
    ELSE IF Len(customerRentals) >= maxNumberOfRentals
    THEN [err |-> ErrMaxRentals, rental |-> Nil]
    ELSE IF HasOverdue(customerRentals)
    THEN [err |-> ErrOverdue, rental |-> Nil]
    ELSE [err |-> NoErr,
          rental |-> [ID |-> id,
                      CustomerID |-> customer.ID,
                      AssetID |-> asset.ID,
                      RentedAt |-> t1,
                      DueAt |-> AddDate(t2, 1),
                      ReturnedAt |-> Nil,
                      Status |-> RentalStatusActive]]

\* Rent: id is the value of uuid.New(), t1 and t2 the two time.Now() readings.
Rent(customer, asset, activeRental, customerRentals, id, t1, t2) ==
    IF activeRental # Nil
    THEN [err |-> ErrAssetRented, rental |-> Nil]
    ELSE IF Len(customerRentals) >= maxNumberOfRentals
    THEN [err |-> ErrMaxRentals, rental |-> Nil]
    ELSE IF HasOverdue(customerRentals)
    THEN [err |-> ErrOverdue, rental |-> Nil]
    ELSE IF customer.Status = CustomerStatusSuspended
    THEN [err |-> ErrSuspended, rental |-> Nil]
    ELSE [err |-> NoErr,
          rental |-> [ID |-> id,
                      CustomerID |-> customer.ID,
                      AssetID |-> asset.ID,
                      RentedAt |-> t1,
                      DueAt |-> AddDate(t2, 1),
                      ReturnedAt |-> Nil,
                      Status |-> RentalStatusActive]]

\* Return without the check for a rental that is already returned
ReturnUnchecked(r, t) ==
    [err |-> NoErr,
     rental |-> [r EXCEPT !.Status = RentalStatusReturned, !.ReturnedAt = t]]

\* Return that sets the status and forgets the timestamp
ReturnNoTimestamp(r, t) ==
    IF r.Status = RentalStatusReturned
    THEN [err |-> ErrAlreadyReturned, rental |-> r]
    ELSE [err |-> NoErr, rental |-> [r EXCEPT !.Status = RentalStatusReturned]]

\* Return: t is the time.Now().UTC() reading. On an error the rental is left
\* as it was and nil is returned.
Return(r, t) ==
    IF r.Status = RentalStatusReturned
    THEN [err |-> ErrAlreadyReturned, rental |-> r]
    ELSE [err |-> NoErr,
          rental |-> [r EXCEPT !.Status = RentalStatusReturned, !.ReturnedAt = t]]

\* Extend that moves the due date and leaves the status as it finds it
ExtendKeepsStatus(r) ==
    IF r.Status = RentalStatusReturned
    THEN [err |-> ErrAlreadyReturned, rental |-> r]
    ELSE IF After(AddDate(r.DueAt, 1), AddDate(r.RentedAt, maxNumberOfExtendedMonths))
    THEN [err |-> ErrExtendLimit, rental |-> r]
    ELSE [err |-> NoErr, rental |-> [r EXCEPT !.DueAt = AddDate(r.DueAt, 1)]]

\* Extend with the limit one month too far
ExtendFourMonths(r) ==
    IF r.Status = RentalStatusReturned
    THEN [err |-> ErrAlreadyReturned, rental |-> r]
    ELSE IF After(AddDate(r.DueAt, 1), AddDate(r.RentedAt, maxNumberOfExtendedMonths + 1))
    THEN [err |-> ErrExtendLimit, rental |-> r]
    ELSE [err |-> NoErr,
          rental |-> [r EXCEPT !.Status = RentalStatusActive,
                               !.DueAt = AddDate(r.DueAt, 1)]]

\* Extend
Extend(r) ==
    IF r.Status = RentalStatusReturned
    THEN [err |-> ErrAlreadyReturned, rental |-> r]
    ELSE IF After(AddDate(r.DueAt, 1), AddDate(r.RentedAt, maxNumberOfExtendedMonths))
    THEN [err |-> ErrExtendLimit, rental |-> r]
    ELSE [err |-> NoErr,
          rental |-> [r EXCEPT !.Status = RentalStatusActive,
                               !.DueAt = AddDate(r.DueAt, 1)]]

---------------------------------------------------------------------------
(* The tables as the application finds them: the customers onboarded,      *)
(* no rental yet, every request task idle.                                 *)

SysInit ==
    /\ customers = [c \in Customers |-> BuildCustomer(c, TRUE).customer]
    /\ rentals = <<>>
    /\ pc = [p \in Procs |-> "idle"]
    /\ req = [p \in Procs |-> Nil]
    /\ loc = [p \in Procs |-> Nil]
    /\ resp = [p \in Procs |-> Nil]
    /\ extended = <<>>

DomIdle ==
    /\ dcust = Nil
    /\ din = Nil
    /\ drental = Nil
    /\ dcall = Nil

\* no librarian signed up, the application process not observed
InfraIdle ==
    /\ librarians = <<>>
    /\ app = Nil

---------------------------------------------------------------------------
(* DomainSpec: the domain functions called the way the package's tests     *)
(* call them. A customer is built and suspended or unsuspended, Rent is    *)
(* called once with that customer and the drawn arguments, then Return and *)
(* Extend are called on the rental Rent produced, in any order, while the  *)
(* clock moves and the external reconciliation may mark it OVERDUE.        *)

DomainStartInstants ==
    { [mon |-> 12, day |-> 15, tk |-> 0],    \* 15 January 2025
      [mon |-> 12, day |-> 29, tk |-> 0],    \* 29 January 2025
      [mon |-> 12, day |-> 31, tk |-> 0],    \* 31 January 2025
      [mon |-> 0,  day |-> 30, tk |-> 0],    \* 30 January 2024 (leap year)
      [mon |-> 10, day |-> 30, tk |-> 0],    \* 30 November 2024
      [mon |-> 11, day |-> 31, tk |-> 0] }   \* 31 December 2024

\* a stored rental of some other asset, as a repository hands it to Rent
SampleRental(st) ==
    [ID |-> "r0", CustomerID |-> "c1", AssetID |-> "a0",
     RentedAt |-> [mon |-> 0, day |-> 1, tk |-> 0],
     DueAt |-> [mon |-> 1, day |-> 1, tk |-> 0],
     ReturnedAt |-> IF st = RentalStatusReturned
                    THEN [mon |-> 0, day |-> 2, tk |-> 0] ELSE Nil,
     Status |-> st]

RentalLists ==
    UNION { [1..n -> {SampleRental(st) : st \in RentalStatuses}] : n \in 0..MaxListLen }

DomainAssets == {"a1", "a2"}

DomainInit ==
    /\ SysInit
    /\ InfraIdle
    /\ now \in DomainStartInstants
    /\ dcust = Nil
    /\ din \in [activeRental : {Nil, SampleRental(RentalStatusActive)},
                customerRentals : RentalLists]
    /\ drental = Nil
    /\ dcall = Nil

\* the clock moves on
DTick ==
    /\ now.tk < MaxTick
    /\ now' = NextInstant(now)
    /\ UNCHANGED <<sysvars, domvars, infravars>>

DBuildCustomer ==
    /\ dcall = Nil
    /\ dcust = Nil
    /\ \E id \in Customers, fieldsPresent \in BOOLEAN :
          dcust' = BuildCustomer(id, fieldsPresent).customer
    /\ UNCHANGED <<now, sysvars, infravars, din, drental, dcall>>

DSuspend ==
    /\ dcall = Nil
    /\ dcust # Nil
    /\ dcust' = Suspend(dcust).customer
    /\ UNCHANGED <<now, sysvars, infravars, din, drental, dcall>>

DUnsuspend ==
    /\ dcall = Nil
    /\ dcust # Nil
    /\ dcust' = Unsuspend(dcust).customer
    /\ UNCHANGED <<now, sysvars, infravars, din, drental, dcall>>

DRent ==
    /\ dcall = Nil
    /\ dcust # Nil
    /\ \E asset \in DomainAssets, t2 \in SecondReadings(now) :
          LET res == Rent(dcust, [ID |-> asset], din.activeRental,
                          din.customerRentals, "r1", now, t2)
          IN  /\ drental' = res.rental
              /\ dcall' = [op |-> "Rent", err |-> res.err, asset |-> asset,
                           before |-> Nil]
              /\ now' = t2
    /\ UNCHANGED <<sysvars, infravars, dcust, din>>

DReturn ==
    /\ drental # Nil
    /\ LET res == Return(drental, now)
       IN  /\ drental' = res.rental
           /\ dcall' = [op |-> "Return", err |-> res.err, asset |-> drental.AssetID,
                        before |-> drental]
    /\ UNCHANGED <<now, sysvars, infravars, dcust, din>>

DExtend ==
    /\ drental # Nil
    /\ LET res == Extend(drental)
       IN  /\ drental' = res.rental
           /\ dcall' = [op |-> "Extend", err |-> res.err, asset |-> drental.AssetID,
                        before |-> drental]
    /\ UNCHANGED <<now, sysvars, infravars, dcust, din>>

\* The reconciliation outside the core: once the due date has passed it
\* marks an ACTIVE rental OVERDUE.
DMarkOverdue ==
    /\ drental # Nil
    /\ drental.Status = RentalStatusActive
    /\ now' = IF After(now, drental.DueAt) THEN now ELSE DayAfter(drental.DueAt)
    /\ drental' = [drental EXCEPT !.Status = RentalStatusOverdue]
    /\ dcall' = [op |-> "MarkOverdue", err |-> NoErr, asset |-> drental.AssetID,
                 before |-> drental]
    /\ UNCHANGED <<sysvars, infravars, dcust, din>>

DomainNext ==
    \/ DTick
    \/ DBuildCustomer
    \/ DSuspend
    \/ DUnsuspend
    \/ DRent
    \/ DReturn
    \/ DExtend
    \/ DMarkOverdue

DomainSpec == DomainInit /\ [][DomainNext]_vars

---------------------------------------------------------------------------
(* The repositories, by the contracts the domain packages declare: a       *)
(* lookup that finds nothing returns nil and no error, a write replaces    *)
(* the whole row, and every call may fail with a storage error.            *)

\* the outcomes of a repository call: TRUE it answers, FALSE it fails
RepoOutcomes == BOOLEAN

\* an id no row has
UnknownId == "none"

\* a rental id no row has
NoRentalId == 0

\* user.Repository.GetCustomer
GetCustomer(id) == IF id \in DOMAIN customers THEN customers[id] ELSE Nil

\* user.Repository.UpdateCustomer
UpdateCustomer(c) == [customers EXCEPT ![c.ID] = c]

\* catalog.Repository.GetAsset
GetAsset(id) == IF id \in Assets THEN [ID |-> id] ELSE Nil

\* rental.Repository.GetActiveRental: the first row of the pair that is ACTIVE
GetActiveRental(customerID, assetID) ==
    LET hits == { i \in DOMAIN rentals :
                    /\ rentals[i].CustomerID = customerID
                    /\ rentals[i].AssetID = assetID
                    /\ rentals[i].Status = RentalStatusActive }
    IN  IF hits = {} THEN Nil
        ELSE rentals[CHOOSE i \in hits : \A j \in hits : i <= j]

RowOfCustomer(r, customerID) == r.CustomerID = customerID

\* rental.Repository.FindRentals with the filter customer_id EQUAL customerID
FindRentals(customerID) ==
    LET Keep(r) == RowOfCustomer(r, customerID)
    IN  SelectSeq(rentals, Keep)

\* rental.Repository.GetRental
GetRental(id) ==
    IF \E i \in DOMAIN rentals : rentals[i].ID = id
    THEN rentals[CHOOSE i \in DOMAIN rentals : rentals[i].ID = id]
    ELSE Nil

\* rental.Repository.CreateRental
CreateRental(rental) == Append(rentals, rental)

\* rental.Repository.UpdateRental
UpdateRental(rental) ==
    [i \in DOMAIN rentals |->
        IF rentals[i].ID = rental.ID THEN rental ELSE rentals[i]]

\* uuid.New(): an id no stored rental has
NewRentalId == Len(rentals) + 1

---------------------------------------------------------------------------
(* The handlers. A request task takes one step per repository call; the    *)
(* decoding of the request and the first read are one step, the domain     *)
(* call and the write that follows it are one step.                        *)

Response(op, id, code, err) == [op |-> op, id |-> id, code |-> code, err |-> err]

\* a nil pointer dereference in the handler: net/http recovers the panic and
\* drops the connection, the client gets no response
Panicked(op, id) == Response(op, id, 0, "panic: nil pointer dereference")

\* the handler of task p returns with response r
Reply(p, r) ==
    /\ pc' = [pc EXCEPT ![p] = "idle"]
    /\ req' = [req EXCEPT ![p] = Nil]
    /\ loc' = [loc EXCEPT ![p] = Nil]
    /\ resp' = [resp EXCEPT ![p] = r]

\* the handler of task p goes on to step next with locals l
Goto(p, next, r, l) ==
    /\ pc' = [pc EXCEPT ![p] = next]
    /\ req' = [req EXCEPT ![p] = r]
    /\ loc' = [loc EXCEPT ![p] = l]
    /\ resp' = [resp EXCEPT ![p] = Nil]

\* rental requests being served
InFlightCreates == Cardinality({ q \in Procs : pc[q] \in
    {"create_asset", "create_active", "create_rentals", "create_rent"} })

\* RentalController.Create: decode the body, GetCustomer
CreateStart(p, cap, cids, aids) ==
    /\ pc[p] = "idle"
    /\ Len(rentals) + InFlightCreates < cap
    /\ \/ /\ Reply(p, Response("create", NoRentalId, 400, "error decoding rental request"))
          /\ UNCHANGED <<now, customers, rentals, extended, domvars, infravars>>
       \/ \E cid \in cids, aid \in aids, ok \in RepoOutcomes :
             /\ IF ok
                THEN Goto(p, "create_asset",
                          [op |-> "create", customer_id |-> cid, asset_id |-> aid],
                          [customer |-> GetCustomer(cid)])
                ELSE Reply(p, Response("create", NoRentalId, 500, "error getting customer"))
             /\ UNCHANGED <<now, customers, rentals, extended, domvars, infravars>>

\* RentalController.Create: GetAsset
CreateGetAsset(p) ==
    /\ pc[p] = "create_asset"
    /\ \E ok \in RepoOutcomes :
          IF ok
          THEN Goto(p, "create_active", req[p],
                    [customer |-> loc[p].customer, asset |-> GetAsset(req[p].asset_id)])
          ELSE Reply(p, Response("create", NoRentalId, 500, "error getting asset"))
    /\ UNCHANGED <<now, customers, rentals, extended, domvars, infravars>>

\* RentalController.Create: GetActiveRental(customer.ID, asset.ID)
CreateGetActive(p) ==
    /\ pc[p] = "create_active"
    /\ IF loc[p].customer = Nil \/ loc[p].asset = Nil
       THEN Reply(p, Panicked("create", NoRentalId))
       ELSE \E ok \in RepoOutcomes :
               IF ok
               THEN Goto(p, "create_rentals", req[p],
                         [customer |-> loc[p].customer, asset |-> loc[p].asset,
                          activeRental |-> GetActiveRental(loc[p].customer.ID, loc[p].asset.ID)])
               ELSE Reply(p, Response("create", NoRentalId, 500, "error getting active rental"))
    /\ UNCHANGED <<now, customers, rentals, extended, domvars, infravars>>

\* RentalController.Create: FindRentals(customer_id = the request's)
CreateFindRentals(p) ==
    /\ pc[p] = "create_rentals"
    /\ \E ok \in RepoOutcomes :
          IF ok
          THEN Goto(p, "create_rent", req[p],
                    [customer |-> loc[p].customer, asset |-> loc[p].asset,
                     activeRental |-> loc[p].activeRental,
                     customerRentals |-> FindRentals(req[p].customer_id)])
          ELSE Reply(p, Response("create", NoRentalId, 500, "error getting customer rentals"))
    /\ UNCHANGED <<now, customers, rentals, extended, domvars, infravars>>

\* RentalController.Create: Rent, CreateRental, the response
CreateRent(p) ==
    /\ pc[p] = "create_rent"
    /\ \E t2 \in SecondReadings(now), ok \in RepoOutcomes :
          LET res == Rent(loc[p].customer, loc[p].asset, loc[p].activeRental,
                          loc[p].customerRentals, NewRentalId, now, t2)
          IN  IF res.err # NoErr
              THEN /\ Reply(p, Response("create", NoRentalId, 400, res.err))
                   /\ UNCHANGED <<now, rentals, extended>>
              ELSE /\ now' = t2
                   /\ IF ok
                      THEN /\ rentals' = CreateRental(res.rental)
                           /\ extended' = Append(extended, 0)
                           /\ Reply(p, Response("create", res.rental.ID, 200, NoErr))
                      ELSE /\ Reply(p, Response("create", NoRentalId, 500, "error creating rental"))
                           /\ UNCHANGED <<rentals, extended>>
    /\ UNCHANGED <<customers, domvars, infravars>>

\* the rental ids a request may name
RentalIds == (1..MaxRentals) \cup {NoRentalId}

\* RentalController.Return: parse the path, GetRental; ids are the rental
\* ids the request may name
ReturnStartOf(p, ids) ==
    /\ pc[p] = "idle"
    /\ \/ Reply(p, Response("return", NoRentalId, 400, "invalid rental ID format, expected UUID"))
       \/ \E id \in ids, ok \in RepoOutcomes :
             IF ok
             THEN Goto(p, "return_do", [op |-> "return", id |-> id], [ren |-> GetRental(id)])
             ELSE Reply(p, Response("return", id, 500, "error getting rental"))
    /\ UNCHANGED <<now, customers, rentals, extended, domvars, infravars>>

\* RentalController.Return: parse the path, GetRental
ReturnStart(p) == ReturnStartOf(p, RentalIds)

\* RentalController.Return that writes the rental whatever rental.Return
\* answered
ReturnFinishIgnoresError(p) ==
    /\ pc[p] = "return_do"
    /\ IF loc[p].ren = Nil
       THEN /\ Reply(p, Panicked("return", req[p].id))
            /\ UNCHANGED rentals
       ELSE LET res == ReturnUnchecked(loc[p].ren, now)
            IN  \E ok \in RepoOutcomes :
                   IF ok
                   THEN /\ rentals' = UpdateRental(res.rental)
                        /\ Reply(p, Response("return", req[p].id, 204, NoErr))
                   ELSE /\ Reply(p, Response("return", req[p].id, 500, "error updating rental"))
                        /\ UNCHANGED rentals
    /\ UNCHANGED <<now, customers, extended, domvars, infravars>>

\* RentalController.Return: rental.Return, UpdateRental, the response
ReturnFinish(p) ==
    /\ pc[p] = "return_do"
    /\ IF loc[p].ren = Nil
       THEN /\ Reply(p, Panicked("return", req[p].id))
            /\ UNCHANGED rentals
       ELSE LET res == Return(loc[p].ren, now)
            IN  IF res.err # NoErr
                THEN /\ Reply(p, Response("return", req[p].id, 400, "error returning rental"))
                     /\ UNCHANGED rentals
                ELSE \E ok \in RepoOutcomes :
                        IF ok
                        THEN /\ rentals' = UpdateRental(res.rental)
                             /\ Reply(p, Response("return", req[p].id, 204, NoErr))
                        ELSE /\ Reply(p, Response("return", req[p].id, 500, "error updating rental"))
                             /\ UNCHANGED rentals
    /\ UNCHANGED <<now, customers, extended, domvars, infravars>>

\* RentalController.Extend: parse the path, GetRental
ExtendStart(p) ==
    /\ pc[p] = "idle"
    /\ \/ Reply(p, Response("extend", NoRentalId, 400, "invalid rental ID format, expected UUID"))
       \/ \E id \in RentalIds, ok \in RepoOutcomes :
             IF ok
             THEN Goto(p, "extend_do", [op |-> "extend", id |-> id], [ren |-> GetRental(id)])
             ELSE Reply(p, Response("extend", id, 500, "error getting rental"))
    /\ UNCHANGED <<now, customers, rentals, extended, domvars, infravars>>

\* RentalController.Extend: rental.Extend, UpdateRental, the response
ExtendFinish(p) ==
    /\ pc[p] = "extend_do"
    /\ IF loc[p].ren = Nil
       THEN /\ Reply(p, Panicked("extend", req[p].id))
            /\ UNCHANGED <<rentals, extended>>
       ELSE LET res == Extend(loc[p].ren)
            IN  IF res.err # NoErr
                THEN /\ Reply(p, Response("extend", req[p].id, 400, res.err))
                     /\ UNCHANGED <<rentals, extended>>
                ELSE \E ok \in RepoOutcomes :
                        IF ok
                        THEN /\ rentals' = UpdateRental(res.rental)
                             /\ extended' = [extended EXCEPT ![req[p].id] = @ + 1]
                             /\ Reply(p, Response("extend", req[p].id, 204, NoErr))
                        ELSE /\ Reply(p, Response("extend", req[p].id, 500, "error updating rental"))
                             /\ UNCHANGED <<rentals, extended>>
    /\ UNCHANGED <<now, customers, domvars, infravars>>

\* CustomerController.Suspend: parse the path, GetCustomer
SuspendStart(p, cids) ==
    /\ pc[p] = "idle"
    /\ \/ Reply(p, Response("suspend", UnknownId, 400, "invalid customer ID format, expected UUID"))
       \/ \E id \in cids, ok \in RepoOutcomes :
             IF ok
             THEN Goto(p, "suspend_do", [op |-> "suspend", id |-> id],
                       [customer |-> GetCustomer(id)])
             ELSE Reply(p, Response("suspend", id, 400, "error getting customer"))
    /\ UNCHANGED <<now, customers, rentals, extended, domvars, infravars>>

\* CustomerController.Suspend: Customer.Suspend, UpdateCustomer, the response
SuspendFinish(p) ==
    /\ pc[p] = "suspend_do"
    /\ IF loc[p].customer = Nil
       THEN /\ Reply(p, Panicked("suspend", req[p].id))
            /\ UNCHANGED customers
       ELSE LET res == Suspend(loc[p].customer)
            IN  IF res.err # NoErr
                THEN /\ Reply(p, Response("suspend", req[p].id, 400, "error suspending customer"))
                     /\ UNCHANGED customers
                ELSE \E ok \in RepoOutcomes :
                        IF ok
                        THEN /\ customers' = UpdateCustomer(res.customer)
                             /\ Reply(p, Response("suspend", req[p].id, 204, NoErr))
                        ELSE /\ Reply(p, Response("suspend", req[p].id, 400, "error updating customer"))
                             /\ UNCHANGED customers
    /\ UNCHANGED <<now, rentals, extended, domvars, infravars>>

\* CustomerController.UnSuspend: parse the path, GetCustomer
UnSuspendStart(p, cids) ==
    /\ pc[p] = "idle"
    /\ \/ Reply(p, Response("unsuspend", UnknownId, 400, "invalid customer ID format, expected UUID"))
       \/ \E id \in cids, ok \in RepoOutcomes :
             IF ok
             THEN Goto(p, "unsuspend_do", [op |-> "unsuspend", id |-> id],
                       [customer |-> GetCustomer(id)])
             ELSE Reply(p, Response("unsuspend", id, 500, "error getting customer"))
    /\ UNCHANGED <<now, customers, rentals, extended, domvars, infravars>>

\* CustomerController.UnSuspend: Customer.Unsuspend, UpdateCustomer, the response
UnSuspendFinish(p) ==
    /\ pc[p] = "unsuspend_do"
    /\ IF loc[p].customer = Nil
       THEN /\ Reply(p, Panicked("unsuspend", req[p].id))
            /\ UNCHANGED customers
       ELSE LET res == Unsuspend(loc[p].customer)
            IN  IF res.err # NoErr
                THEN /\ Reply(p, Response("unsuspend", req[p].id, 400, res.err))
                     /\ UNCHANGED customers
                ELSE \E ok \in RepoOutcomes :
                        IF ok
                        THEN /\ customers' = UpdateCustomer(res.customer)
                             /\ Reply(p, Response("unsuspend", req[p].id, 204, NoErr))
                        ELSE /\ Reply(p, Response("unsuspend", req[p].id, 500, "error updating customer"))
                             /\ UNCHANGED customers
    /\ UNCHANGED <<now, rentals, extended, domvars, infravars>>

\* the clock moves on
Tick ==
    /\ now.tk < MaxTick
    /\ now' = NextInstant(now)
    /\ UNCHANGED <<sysvars, domvars, infravars>>

\* The reconciliation outside the core: once the due date of a stored ACTIVE
\* rental has passed it marks the row OVERDUE.
MarkOverdue ==
    \E i \in DOMAIN rentals :
        /\ rentals[i].Status = RentalStatusActive
        /\ now' = IF After(now, rentals[i].DueAt) THEN now ELSE DayAfter(rentals[i].DueAt)
        /\ rentals' = [rentals EXCEPT ![i].Status = RentalStatusOverdue]
        /\ UNCHANGED <<customers, pc, req, loc, resp, extended, domvars, infravars>>

---------------------------------------------------------------------------
(* Spec: every handler, one request served at a time, with the clock and   *)
(* the overdue reconciliation running alongside                            *)

SysStartInstants ==
    { [mon |-> 12, day |-> 15, tk |-> 0],    \* 15 January 2025
      [mon |-> 12, day |-> 31, tk |-> 0] }   \* 31 January 2025

SysCustomerIds == {"c1", UnknownId}
SysAssetIds == {"a1", UnknownId}

Init ==
    /\ SysInit
    /\ DomIdle
    /\ InfraIdle
    /\ now \in SysStartInstants

Step(p) ==
    \/ CreateStart(p, MaxRentals, SysCustomerIds, SysAssetIds)
    \/ CreateGetAsset(p)
    \/ CreateGetActive(p)
    \/ CreateFindRentals(p)
    \/ CreateRent(p)
    \/ ReturnStart(p)
    \/ ReturnFinish(p)
    \/ ExtendStart(p)
    \/ ExtendFinish(p)
    \/ SuspendStart(p, SysCustomerIds)
    \/ SuspendFinish(p)
    \/ UnSuspendStart(p, SysCustomerIds)
    \/ UnSuspendFinish(p)

Next ==
    \/ \E p \in SeqProcs : Step(p)
    \/ Tick
    \/ MarkOverdue

Spec == Init /\ [][Next]_vars

---------------------------------------------------------------------------
(* RentSpec: POST /rentals served by concurrent request tasks, for one     *)
(* customer and the assets of the catalog                                  *)

RentStartInstant == [mon |-> 12, day |-> 15, tk |-> 0]    \* 15 January 2025

RentCustomerIds == {"c1"}

\* more rows than the tasks can insert past the rental limit
RentCap == maxNumberOfRentals + Cardinality(Procs)

RentInit ==
    /\ SysInit
    /\ DomIdle
    /\ InfraIdle
    /\ now = RentStartInstant

RentStep(p) ==
    \/ CreateStart(p, RentCap, RentCustomerIds, Assets)
    \/ CreateGetAsset(p)
    \/ CreateGetActive(p)
    \/ CreateFindRentals(p)
    \/ CreateRent(p)

RentNext == \E p \in Procs : RentStep(p)

RentSpec == RentInit /\ [][RentNext]_vars

---------------------------------------------------------------------------
(* AssetSpec: POST /rentals served one request at a time for the customers *)
(* of the store and one asset of the catalog                               *)

AssetSpecAssets == {"a1"}

AssetStep(p) ==
    \/ CreateStart(p, MaxRentals, Customers, AssetSpecAssets)
    \/ CreateGetAsset(p)
    \/ CreateGetActive(p)
    \/ CreateFindRentals(p)
    \/ CreateRent(p)

AssetNext ==
    \/ \E p \in SeqProcs : AssetStep(p)
    \/ Tick

AssetSpec == RentInit /\ [][AssetNext]_vars

---------------------------------------------------------------------------
(* ReturnExtendSpec: customer c1 rents the asset, and PUT                  *)
(* /rentals/{id}/return and PUT /rentals/{id}/extend are served by         *)
(* concurrent request tasks                                                *)

\* one rental of the asset is stored
ReturnExtendCap == Cardinality(AssetSpecAssets)

ReturnExtendStep(p) ==
    \/ CreateStart(p, ReturnExtendCap, RentCustomerIds, AssetSpecAssets)
    \/ CreateGetAsset(p)
    \/ CreateGetActive(p)
    \/ CreateFindRentals(p)
    \/ CreateRent(p)
    \/ ReturnStart(p)
    \/ ReturnFinish(p)
    \/ ExtendStart(p)
    \/ ExtendFinish(p)

ReturnExtendNext ==
    \/ \E p \in Procs : ReturnExtendStep(p)
    \/ Tick

ReturnExtendSpec == RentInit /\ [][ReturnExtendNext]_vars

---------------------------------------------------------------------------
(* SuspendRentSpec: POST /rentals and PUT /customers/{id}/suspend for      *)
(* customer c1 served by concurrent request tasks                          *)

SuspendRentStep(p) ==
    \/ CreateStart(p, MaxRentals, RentCustomerIds, AssetSpecAssets)
    \/ CreateGetAsset(p)
    \/ CreateGetActive(p)
    \/ CreateFindRentals(p)
    \/ CreateRent(p)
    \/ SuspendStart(p, RentCustomerIds)
    \/ SuspendFinish(p)

SuspendRentNext == \E p \in Procs : SuspendRentStep(p)

SuspendRentSpec == RentInit /\ [][SuspendRentNext]_vars

---------------------------------------------------------------------------
(* RentReturnSpec: customer c1 rents the asset and returns it, again and   *)
(* again, one request at a time                                            *)

\* one rental more than the rental limit
RentReturnCap == maxNumberOfRentals + 1

RentReturnStep(p) ==
    \/ CreateStart(p, RentReturnCap, RentCustomerIds, AssetSpecAssets)
    \/ CreateGetAsset(p)
    \/ CreateGetActive(p)
    \/ CreateFindRentals(p)
    \/ CreateRent(p)
    \/ ReturnStartOf(p, 1..RentReturnCap)
    \/ ReturnFinish(p)

RentReturnNext == \E p \in SeqProcs : RentReturnStep(p)

RentReturnSpec == RentInit /\ [][RentReturnNext]_vars

---------------------------------------------------------------------------
(* internal/auth, internal/onboarding and the librarians of internal/user. *)
(* In the specifications of the HTTP layer the clock counts whole hours.   *)

\* the hours the clock of the HTTP layer runs through
MaxHour == 5

\* expiryDuration, in hours
expiryDuration == 4

\* os.Getenv("AUTH_SIGNING_KEY")
SigningKey == "signing-key"

Emails == {"e1", "e2"}
Passwords == {"pw1", "pw2"}

ErrLibrarianName == "librarian name field is mandatory"
ErrLibrarianEmail == "librarian email field is mandatory"
ErrLibrarianPassword == "librarian password field is mandatory"
ErrBadCredentials == "login bad credentials"
ErrParsingToken == "error parsing token"
ErrRegisteredClaims == "error while parsing jwt registered claims"

\* HashPassword: the bcrypt hash of the password, a non-empty string
HashPassword(password) ==
    CASE password = "pw1" -> "bcrypt(pw1)"
      [] password = "pw2" -> "bcrypt(pw2)"
      [] OTHER -> "bcrypt()"

\* CheckPassword: bcrypt.CompareHashAndPassword
CheckPassword(hashedPwd, plainPwd) ==
    IF hashedPwd = HashPassword(plainPwd) THEN NoErr ELSE "hashedPassword is not the hash of the given password"

\* BuildLibrarian: id is the value of uuid.New()
BuildLibrarian(id, name, email, password) ==
    IF name = "" THEN [err |-> ErrLibrarianName, librarian |-> Nil]
    ELSE IF email = "" THEN [err |-> ErrLibrarianEmail, librarian |-> Nil]
    ELSE IF password = "" THEN [err |-> ErrLibrarianPassword, librarian |-> Nil]
    ELSE [err |-> NoErr,
          librarian |-> [ID |-> id, Name |-> name, Email |-> email, Password |-> password]]

\* onboarding.Librarian: the password is hashed, then the librarian built
OnboardLibrarian(id, r) ==
    BuildLibrarian(id, r.Name, r.Email, HashPassword(r.Password))

\* an Authorization header that is absent
NoToken == [empty |-> TRUE]

\* an Authorization header that holds no JWT
GarbageToken == [malformed |-> TRUE]

\* tok.SignedString(key): the claims of Login's token signed with the key
SignedString(sub, exp, key) ==
    [sub |-> sub, iss |-> "librarium", exp |-> exp, alg |-> "HS256", key |-> key]

\* Login: t is the reading of time.Now() the expiry is computed from
Login(loginReq, librarian, t) ==
    IF loginReq.Email # librarian.Email
       \/ CheckPassword(librarian.Password, loginReq.Password) # NoErr
    THEN [err |-> ErrBadCredentials, session |-> Nil]
    ELSE [err |-> NoErr,
          session |-> [LibrarianID |-> librarian.ID,
                       ExpiresAt |-> t + expiryDuration,
                       Token |-> SignedString(librarian.ID, t + expiryDuration, SigningKey)]]

\* jwt.Parse(tokenStr, keyFunc, WithValidMethods(HS256)) at time t: the token
\* must be well formed, signed by an allowed method with the key the keyFunc
\* returns, and not expired. Parse is ParseWithClaims with jwt.MapClaims{},
\* so the claims of the token it returns are a jwt.MapClaims.
JwtParse(tokenStr, key, t) ==
    IF tokenStr = NoToken \/ tokenStr = GarbageToken
    THEN [err |-> "token is malformed", claims |-> Nil]
    ELSE IF tokenStr.alg # "HS256"
    THEN [err |-> "token signature is invalid: signing method is invalid", claims |-> Nil]
    ELSE IF tokenStr.key # key
    THEN [err |-> "token signature is invalid", claims |-> Nil]
    ELSE IF ~(t < tokenStr.exp)
    THEN [err |-> "token has invalid claims: token is expired", claims |-> Nil]
    ELSE [err |-> NoErr,
          claims |-> [type |-> "jwt.MapClaims", sub |-> tokenStr.sub, exp |-> tokenStr.exp]]

\* DecodeAndValidate: the claims are type-asserted to jwt.RegisteredClaims
DecodeAndValidate(tokenStr, t) ==
    LET parsed == JwtParse(tokenStr, SigningKey, t)
    IN  IF parsed.err # NoErr
        THEN [err |-> ErrParsingToken, id |-> Nil]
        ELSE IF parsed.claims.type = "jwt.RegisteredClaims"
        THEN [err |-> NoErr, id |-> parsed.claims.sub]
        ELSE [err |-> ErrRegisteredClaims, id |-> Nil]

\* user.Repository.GetLibrarianByEmail
GetLibrarianByEmail(email) ==
    IF \E i \in DOMAIN librarians : librarians[i].Email = email
    THEN librarians[CHOOSE i \in DOMAIN librarians : librarians[i].Email = email]
    ELSE Nil

\* user.Repository.CreateLibrarian: the email column is UNIQUE, the insert of
\* a second row with a stored email fails
CanCreateLibrarian(librarian) ==
    \A i \in DOMAIN librarians : librarians[i].Email # librarian.Email

CreateLibrarian(librarian) == Append(librarians, librarian)

\* uuid.New(): an id no stored librarian has
NewLibrarianId == Len(librarians) + 1

---------------------------------------------------------------------------
(* internal/http: the response writer, the middlewares and the router *)

Methods == {"GET", "POST", "PUT", "DELETE"}
Paths == {"/signup", "/login", "/rentals"}
ContentTypes == {"application/json", "application/json; charset=utf-8", ""}

\* a response writer nothing was written to
NewWriter == [code |-> 0, body |-> <<>>]

\* http.ResponseWriter.WriteHeader: only the first call sets the status
WriteHeader(w, code) == IF w.code = 0 THEN [w EXCEPT !.code = code] ELSE w

\* http.ResponseWriter.Write: the bytes are appended, and the status is 200
\* when no header was written before
WriteBody(w, b) ==
    [code |-> IF w.code = 0 THEN 200 ELSE w.code, body |-> Append(w.body, b)]

\* the JSON document WriteResponse encodes an error as
ErrBody(msg) == [error |-> msg]

\* WriteResponse
WriteResponse(w, statusCode, rsp) ==
    IF rsp = Nil
    THEN WriteHeader(w, 204)
    ELSE WriteBody(WriteHeader(w, statusCode), rsp)

\* AuthMiddleware letting every request through
AuthMiddlewareOpen(w, r, t) == [w |-> w, next |-> TRUE]

\* AuthMiddleware: the writer it leaves and whether it calls next
AuthMiddleware(w, r, t) ==
    IF r.path = "/signup" \/ r.path = "/login"
    THEN [w |-> w, next |-> TRUE]
    ELSE IF r.token = NoToken
    THEN [w |-> WriteResponse(w, 401, ErrBody("unauthorized")), next |-> FALSE]
    ELSE IF DecodeAndValidate(r.token, t).err # NoErr
    THEN [w |-> WriteResponse(w, 401, ErrBody("unauthorized")), next |-> FALSE]
    ELSE [w |-> w, next |-> TRUE]

ErrContentType == "Content-Type must be application/json"

\* JsonContentTypeMiddleware: the writer it leaves and whether it calls next;
\* nothing returns after the 400 is written, next is called in every case
JsonContentTypeMiddleware(w, r) ==
    IF (r.method = "POST" \/ r.method = "PUT") /\ r.contentType # "application/json"
    THEN [w |-> WriteResponse(w, 400, ErrBody(ErrContentType)), next |-> TRUE]
    ELSE [w |-> w, next |-> TRUE]

\* withMiddlewares with the first middleware outermost
withMiddlewaresFirstOutermost(h, middlewares) == middlewares \o h

\* withMiddlewares: each middleware wraps the handler built so far, so the
\* last one is the outermost; the result lists the layers, outermost first
withMiddlewares(h, middlewares) ==
    LET n == Len(middlewares)
    IN  [i \in 1..n |-> middlewares[n + 1 - i]] \o h

\* Server.router
Router == withMiddlewares(<<"mux">>, <<"JsonContentTypeMiddleware", "AuthMiddleware">>)

---------------------------------------------------------------------------
(* The server serving a request: one step per layer of the handler chain,  *)
(* then the steps of the controller the mux routes to. req[p] is the       *)
(* request, resp[p] the response writer, loc[p].rest the layers still to   *)
(* run and loc[p].ran the layers and controllers that ran.                 *)

SignupBodies == [Name : {"n1", ""}, Email : Emails, Password : Passwords]

\* the request bodies of HttpSpec: JSON documents for one email, or bytes
\* that do not decode
Bodies ==
    { b \in SignupBodies : b.Email = "e1" /\ (b.Name = "" => b.Password = "pw1") }
    \cup {Nil}

\* the tokens a client can put in the Authorization header: none, one that
\* is no JWT, one signed with another key, the one of the login it just made
ClientTokens(p) ==
    {NoToken, GarbageToken, SignedString(1, MaxHour + 1, "another-key")}
    \cup (IF resp[p] # Nil /\ resp[p].code = 200 /\ Len(resp[p].body) = 1
             /\ "Token" \in DOMAIN resp[p].body[1]
          THEN {resp[p].body[1].Token}
          ELSE {})

\* the layer of the chain task p is about to run
AtLayer(p, layer) ==
    /\ pc[p] = "serve"
    /\ loc[p].rest # <<>>
    /\ Head(loc[p].rest) = layer

\* task p has run the layers or controllers names, which left writer w; it goes on to
\* step next, or the request is over when next is "idle"
Ran(p, names, w, next) ==
    /\ pc' = [pc EXCEPT ![p] = next]
    /\ loc' = [loc EXCEPT ![p] = [rest |-> IF @.rest = <<>> THEN <<>> ELSE Tail(@.rest),
                                  ran |-> @.ran \o names]]
    /\ resp' = [resp EXCEPT ![p] = w]
    /\ req' = req

\* a request arrives at the server's handler
HttpRequest(p) ==
    /\ pc[p] = "idle"
    /\ \E method \in Methods, path \in Paths, contentType \in ContentTypes,
          token \in ClientTokens(p), body \in Bodies :
          /\ req' = [req EXCEPT ![p] = [method |-> method, path |-> path,
                                        contentType |-> contentType,
                                        token |-> token, body |-> body]]
          /\ pc' = [pc EXCEPT ![p] = "serve"]
          /\ loc' = [loc EXCEPT ![p] = [rest |-> Router, ran |-> <<>>]]
          /\ resp' = [resp EXCEPT ![p] = NewWriter]
    /\ UNCHANGED <<now, customers, rentals, extended, domvars, infravars>>

\* the AuthMiddleware layer
ServeAuth(p) ==
    /\ AtLayer(p, "AuthMiddleware")
    /\ LET out == AuthMiddleware(resp[p], req[p], now)
       IN  Ran(p, <<"AuthMiddleware">>, out.w, IF out.next THEN "serve" ELSE "idle")
    /\ UNCHANGED <<now, customers, rentals, extended, domvars, infravars>>

\* the JsonContentTypeMiddleware layer
ServeJson(p) ==
    /\ AtLayer(p, "JsonContentTypeMiddleware")
    /\ LET out == JsonContentTypeMiddleware(resp[p], req[p])
       IN  Ran(p, <<"JsonContentTypeMiddleware">>, out.w, IF out.next THEN "serve" ELSE "idle")
    /\ UNCHANGED <<now, customers, rentals, extended, domvars, infravars>>

\* the mux: the route table of Server.router restricted to Paths. The
\* controller of a protected route runs and writes its response; a path
\* served under another method only is answered 405 by the mux itself.
ServeMux(p) ==
    /\ AtLayer(p, "mux")
    /\ LET r == req[p]
       IN  IF r.method = "POST" /\ r.path = "/signup"
           THEN Ran(p, <<"mux">>, resp[p], "signup")
           ELSE IF r.method = "POST" /\ r.path = "/login"
           THEN Ran(p, <<"mux">>, resp[p], "login")
           ELSE IF r.method \in {"GET", "POST"} /\ r.path = "/rentals"
           THEN Ran(p, <<"mux", "controller">>,
                    WriteResponse(resp[p], 200, [rentals |-> "found"]), "idle")
           ELSE Ran(p, <<"mux">>,
                    WriteBody(WriteHeader(resp[p], 405), [text |-> "Method Not Allowed"]), "idle")
    /\ UNCHANGED <<now, customers, rentals, extended, domvars, infravars>>

\* AuthController.Login
ServeLogin(p) ==
    /\ pc[p] = "login"
    /\ \E ok \in RepoOutcomes :
          LET body == req[p].body
              librarian == GetLibrarianByEmail(body.Email)
              w == resp[p]
          IN  IF body = Nil
              THEN Ran(p, <<"Login">>, WriteResponse(w, 400, ErrBody("error decoding login request")), "idle")
              ELSE IF ~ok
              THEN Ran(p, <<"Login">>, WriteResponse(w, 500, ErrBody("error getting librarian")), "idle")
              ELSE IF librarian = Nil
              THEN Ran(p, <<"Login">>, WriteResponse(w, 404, ErrBody("librarian not found")), "idle")
              ELSE LET res == Login(body, librarian, now)
                   IN  IF res.err # NoErr
                       THEN Ran(p, <<"Login">>, WriteResponse(w, 500, ErrBody(res.err)), "idle")
                       ELSE Ran(p, <<"Login">>, WriteResponse(w, 200, res.session), "idle")
    /\ UNCHANGED <<now, customers, rentals, extended, domvars, infravars>>

\* AuthController.Signup: decode the body, GetLibrarianByEmail, the check
SignupStart(p) ==
    /\ pc[p] = "signup"
    /\ \E ok \in RepoOutcomes :
          LET body == req[p].body
              w == resp[p]
          IN  IF body = Nil
              THEN Ran(p, <<"Signup">>, WriteResponse(w, 400, ErrBody("error decoding signup request")), "idle")
              ELSE IF ~ok
              THEN Ran(p, <<"Signup">>, WriteResponse(w, 500, ErrBody("error getting librarian")), "idle")
              ELSE IF GetLibrarianByEmail(body.Email) # Nil
              THEN Ran(p, <<"Signup">>, WriteResponse(w, 409, ErrBody("email already registered")), "idle")
              ELSE Ran(p, <<"Signup">>, w, "signup_create")
    /\ UNCHANGED <<now, customers, rentals, extended, domvars, infravars>>

\* AuthController.Signup: onboarding.Librarian, CreateLibrarian, the response
SignupFinish(p) ==
    /\ pc[p] = "signup_create"
    /\ \E ok \in RepoOutcomes :
          LET res == OnboardLibrarian(NewLibrarianId, req[p].body)
              w == resp[p]
          IN  IF res.err # NoErr
              THEN /\ Ran(p, <<"Signup">>, WriteResponse(w, 400, ErrBody(res.err)), "idle")
                   /\ UNCHANGED librarians
              ELSE IF ok /\ CanCreateLibrarian(res.librarian)
              THEN /\ librarians' = CreateLibrarian(res.librarian)
                   /\ Ran(p, <<"Signup">>, WriteResponse(w, 200, [id |-> res.librarian.ID]), "idle")
              ELSE /\ Ran(p, <<"Signup">>, WriteResponse(w, 500, ErrBody("error creating librarian")), "idle")
                   /\ UNCHANGED librarians
    /\ UNCHANGED <<now, customers, rentals, extended, domvars, app>>

\* an hour passes
HourPasses ==
    /\ now < MaxHour
    /\ now' = now + 1
    /\ UNCHANGED <<sysvars, domvars, infravars>>

---------------------------------------------------------------------------
(* HttpSpec: the server's handler chain serving one request at a time *)

HttpInit ==
    /\ SysInit
    /\ DomIdle
    /\ InfraIdle
    /\ now = 0

HttpStep(p) ==
    \/ HttpRequest(p)
    \/ ServeAuth(p)
    \/ ServeJson(p)
    \/ ServeMux(p)
    \/ ServeLogin(p)
    \/ SignupStart(p)
    \/ SignupFinish(p)

HttpNext ==
    \/ \E p \in SeqProcs : HttpStep(p)
    \/ HourPasses

HttpSpec == HttpInit /\ [][HttpNext]_vars

---------------------------------------------------------------------------
(* SignupSpec: POST /signup requests that passed the middlewares, served   *)
(* by concurrent request tasks                                             *)

\* a signup request reaches AuthController.Signup
SignupArrives(p) ==
    /\ pc[p] = "idle"
    /\ \E body \in SignupBodies \cup {Nil} :
          req' = [req EXCEPT ![p] = [method |-> "POST", path |-> "/signup",
                                     contentType |-> "application/json",
                                     token |-> NoToken, body |-> body]]
    /\ pc' = [pc EXCEPT ![p] = "signup"]
    /\ loc' = [loc EXCEPT ![p] = [rest |-> <<>>, ran |-> <<>>]]
    /\ resp' = [resp EXCEPT ![p] = NewWriter]
    /\ UNCHANGED <<now, customers, rentals, extended, domvars, infravars>>

SignupStep(p) ==
    \/ SignupArrives(p)
    \/ SignupStart(p)
    \/ SignupFinish(p)

SignupNext == \E p \in Procs : SignupStep(p)

SignupSpec == HttpInit /\ [][SignupNext]_vars

---------------------------------------------------------------------------
(* internal/app: Application.Run from the termination signal on, and       *)
(* Server.Shutdown. app.steps are the statements still to run, app.timer   *)
(* the seconds spent in the statement that is running, app.log the         *)
(* statements that completed. A request task is "inflight" from the moment *)
(* the server accepted its request until its handler returns.              *)

\* _readinessDrainDelay, _shutdownHardPeriod and _shutdownPeriod, in seconds
readinessDrainDelay == 5
shutdownHardPeriod == 3
shutdownPeriod == 15

\* Application.Run with the storage closed before the server is shut down
RunStepsCloseFirst ==
    <<"signal", "flag", "readiness_sleep", "db_close", "hard_sleep",
      "shutdown", "hard_sleep", "exit">>

\* Application.Run: wait for the signal, store the flag, sleep, shut the
\* server down (and sleep the hard period on error), close the storage (and
\* sleep the hard period on error), return
RunSteps ==
    <<"signal", "flag", "readiness_sleep", "shutdown", "hard_sleep",
      "db_close", "hard_sleep", "exit">>

\* Server.Shutdown with the base context cancelled before the drain
ShutdownStepsCancelFirst ==
    <<"stop_ongoing", "http_shutdown_call", "http_shutdown_drain", "shutdown_return">>

\* Server.Shutdown: http.Server.Shutdown under a context of _shutdownPeriod,
\* then stopOngoingGracefully, then return
ShutdownSteps ==
    <<"http_shutdown_call", "http_shutdown_drain", "stop_ongoing", "shutdown_return">>

\* the seconds the running statement may take
Duration(step) ==
    CASE step = "readiness_sleep" -> readinessDrainDelay
      [] step = "hard_sleep" -> shutdownHardPeriod
      [] step = "http_shutdown_drain" -> shutdownPeriod
      [] OTHER -> 0

InFlight == { p \in Procs : pc[p] = "inflight" }

AppAt(step) ==
    /\ app # Nil
    /\ app.steps # <<>>
    /\ Head(app.steps) = step

\* the running statement completes; a is app with the statement's effects
Completed(a, event) ==
    app' = [a EXCEPT !.steps = Tail(app.steps), !.timer = 0, !.log = Append(app.log, event)]

\* the process receives SIGINT or SIGTERM
AppSignal ==
    /\ AppAt("signal")
    /\ Completed(app, "signal")
    /\ UNCHANGED <<now, sysvars, domvars, librarians>>

\* a.isShuttingDown.Store(true)
StoreFlag ==
    /\ AppAt("flag")
    /\ Completed([app EXCEPT !.isShuttingDown = TRUE], "flag")
    /\ UNCHANGED <<now, sysvars, domvars, librarians>>

\* a second passes in a sleep or in the drain
SecondPasses ==
    /\ app # Nil
    /\ app.steps # <<>>
    /\ app.timer < Duration(Head(app.steps))
    /\ Head(app.steps) = "hard_sleep" => app.err
    /\ app' = [app EXCEPT !.timer = @ + 1]
    /\ UNCHANGED <<now, sysvars, domvars, librarians>>

\* time.Sleep(_readinessDrainDelay) returns
ReadinessSleepDone ==
    /\ AppAt("readiness_sleep")
    /\ app.timer = readinessDrainDelay
    /\ Completed([app EXCEPT !.waited = app.timer], "readiness_sleep")
    /\ UNCHANGED <<now, sysvars, domvars, librarians>>

\* if err != nil { time.Sleep(_shutdownHardPeriod) }
HardSleepDone ==
    /\ AppAt("hard_sleep")
    /\ app.err => app.timer = shutdownHardPeriod
    /\ Completed([app EXCEPT !.err = FALSE], "hard_sleep")
    /\ UNCHANGED <<now, sysvars, domvars, librarians>>

\* a.server.Shutdown() is called
CallShutdown ==
    /\ AppAt("shutdown")
    /\ app' = [app EXCEPT !.steps = ShutdownSteps \o Tail(app.steps),
                          !.log = Append(app.log, "shutdown")]
    /\ UNCHANGED <<now, sysvars, domvars, librarians>>

\* s.Server.Shutdown(shutdownCtx) is called: the listeners are closed
HttpShutdownCall ==
    /\ AppAt("http_shutdown_call")
    /\ Completed([app EXCEPT !.listening = FALSE, !.httpShutdownCalled = TRUE],
                 "http_shutdown_call")
    /\ UNCHANGED <<now, sysvars, domvars, librarians>>

\* s.Server.Shutdown(shutdownCtx) returns: no request is in flight, or the
\* context's deadline has passed
HttpShutdownReturns ==
    /\ AppAt("http_shutdown_drain")
    /\ InFlight = {} \/ app.timer = shutdownPeriod
    /\ Completed([app EXCEPT !.httpShutdownReturned = TRUE,
                             !.drained = (InFlight = {}),
                             !.drainSecs = app.timer,
                             !.err = (InFlight # {})],
                 "http_shutdown_return")
    /\ UNCHANGED <<now, sysvars, domvars, librarians>>

\* s.stopOngoingGracefully(): the base context of the requests is cancelled
StopOngoing ==
    /\ AppAt("stop_ongoing")
    /\ Completed([app EXCEPT !.baseCancelled = TRUE], "stop_ongoing")
    /\ UNCHANGED <<now, sysvars, domvars, librarians>>

\* Server.Shutdown returns
ShutdownReturn ==
    /\ AppAt("shutdown_return")
    /\ Completed([app EXCEPT !.shutdownReturned = TRUE], "shutdown_return")
    /\ UNCHANGED <<now, sysvars, domvars, librarians>>

\* a.db.Close(), which may fail
CloseDb ==
    /\ AppAt("db_close")
    /\ \E ok \in RepoOutcomes :
          Completed([app EXCEPT !.dbClosed = TRUE, !.err = ~ok], "db_close")
    /\ UNCHANGED <<now, sysvars, domvars, librarians>>

\* Run returns
AppExit ==
    /\ AppAt("exit")
    /\ Completed(app, "exit")
    /\ UNCHANGED <<now, sysvars, domvars, librarians>>

\* the server accepts a request
RequestArrives(p) ==
    /\ app # Nil
    /\ app.listening
    /\ pc[p] = "idle"
    /\ pc' = [pc EXCEPT ![p] = "inflight"]
    /\ UNCHANGED <<now, customers, rentals, req, loc, resp, extended, domvars, infravars>>

\* the handler of a request returns
RequestFinishes(p) ==
    /\ pc[p] = "inflight"
    /\ pc' = [pc EXCEPT ![p] = "idle"]
    /\ UNCHANGED <<now, customers, rentals, req, loc, resp, extended, domvars, infravars>>

---------------------------------------------------------------------------
(* ShutdownSpec: the application serving requests, then shutting down *)

ShutdownInit ==
    /\ SysInit
    /\ DomIdle
    /\ librarians = <<>>
    /\ now = 0
    /\ app = [steps |-> RunSteps, timer |-> 0, log |-> <<>>,
              listening |-> TRUE, isShuttingDown |-> FALSE, waited |-> 0,
              httpShutdownCalled |-> FALSE, httpShutdownReturned |-> FALSE,
              drained |-> FALSE, drainSecs |-> 0,
              baseCancelled |-> FALSE, shutdownReturned |-> FALSE,
              dbClosed |-> FALSE, err |-> FALSE]

ShutdownNext ==
    \/ AppSignal
    \/ StoreFlag
    \/ SecondPasses
    \/ ReadinessSleepDone
    \/ HardSleepDone
    \/ CallShutdown
    \/ HttpShutdownCall
    \/ HttpShutdownReturns
    \/ StopOngoing
    \/ ShutdownReturn
    \/ CloseDb
    \/ AppExit
    \/ \E p \in Procs : RequestArrives(p)
    \/ \E p \in Procs : RequestFinishes(p)

ShutdownSpec == ShutdownInit /\ [][ShutdownNext]_vars

---------------------------------------------------------------------------
(* internal/query: the filters of a list request. A parameter name is the  *)
(* sequence of its field name and the suffixes written after it, so        *)
(* <<"foo", "_from">> is foo_from; a filter's Value is a record whose      *)
(* fields tell the Go type it holds.                                       *)

FilterTypeIn == "IN"
FilterTypeEqual == "EQUAL"
FilterTypeRange == "RANGE"
FilterTypeNotEqual == "NOT_EQUAL"
FilterTypeLike == "LIKE"

\* limit, offset, descending and sort_by
ReservedParams == { <<"limit">>, <<"offset">>, <<"descending">>, <<"sort_by">> }

\* strings.HasSuffix(name, suffix), for a suffix of the operator suffixes
HasSuffix(name, suffix) == Len(name) > 1 /\ name[Len(name)] = suffix

\* strings.TrimSuffix(field, suffix)
TrimSuffix(field, suffix) ==
    IF HasSuffix(field, suffix) THEN SubSeq(field, 1, Len(field) - 1) ELSE field

\* strings.Contains(name, "[]")
ContainsBrackets(name) == \E i \in 1..Len(name) : name[i] = "[]"

\* cleanUpField: the five TrimSuffix calls, one after the other
cleanUpField(field) ==
    TrimSuffix(TrimSuffix(TrimSuffix(TrimSuffix(TrimSuffix(field,
        "[]"), "_from"), "_to"), "_like"), "_not")

\* isParameterAllowed
isParameterAllowed(name) == name \notin ReservedParams

\* RangeFilter{From, To}; a field left out holds ""
RangeFilter(from, to) == [From |-> from, To |-> to]

\* filterFromParamName that never looks at the filter already stored
filterFromParamNameNoMerge(name, value, filters) ==
    IF ContainsBrackets(name)
    THEN [Type |-> FilterTypeIn, Value |-> [Strings |-> value]]
    ELSE IF HasSuffix(name, "_from")
    THEN [Type |-> FilterTypeRange, Value |-> RangeFilter(value[1], "")]
    ELSE IF HasSuffix(name, "_to")
    THEN [Type |-> FilterTypeRange, Value |-> RangeFilter("", value[1])]
    ELSE IF HasSuffix(name, "_not")
    THEN [Type |-> FilterTypeNotEqual, Value |-> [String |-> value[1]]]
    ELSE IF HasSuffix(name, "_like")
    THEN [Type |-> FilterTypeLike, Value |-> [String |-> value[1]]]
    ELSE [Type |-> FilterTypeEqual, Value |-> [String |-> value[1]]]

\* filterFromParamName
filterFromParamName(name, value, filters) ==
    LET field == cleanUpField(name)
        stored == field \in DOMAIN filters /\ filters[field].Type = FilterTypeRange
    IN  IF ContainsBrackets(name)
        THEN [Type |-> FilterTypeIn, Value |-> [Strings |-> value]]
        ELSE IF HasSuffix(name, "_from")
        THEN IF stored
             THEN [Type |-> FilterTypeRange,
                   Value |-> RangeFilter(value[1], filters[field].Value.To)]
             ELSE [Type |-> FilterTypeRange, Value |-> RangeFilter(value[1], "")]
        ELSE IF HasSuffix(name, "_to")
        THEN IF stored
             THEN [Type |-> FilterTypeRange,
                   Value |-> RangeFilter(filters[field].Value.From, value[1])]
             ELSE [Type |-> FilterTypeRange, Value |-> RangeFilter("", value[1])]
        ELSE IF HasSuffix(name, "_not")
        THEN [Type |-> FilterTypeNotEqual, Value |-> [String |-> value[1]]]
        ELSE IF HasSuffix(name, "_like")
        THEN [Type |-> FilterTypeLike, Value |-> [String |-> value[1]]]
        ELSE [Type |-> FilterTypeEqual, Value |-> [String |-> value[1]]]

\* filters[field] = filter
SetFilter(filters, field, filter) ==
    [f \in DOMAIN filters \cup {field} |-> IF f = field THEN filter ELSE filters[f]]

\* the parameter names a list request may carry
ParamNames ==
    { <<"foo", "_from">>, <<"foo", "_to">>, <<"foo">>, <<"foo", "_like">>,
      <<"foo", "[]">>, <<"bar", "_from">>, <<"limit">> }

\* the values of a parameter in the order of the query string; repeated is
\* whether a lower bound is written twice
ParamValue(name, repeated) ==
    IF HasSuffix(name, "_from") THEN (IF repeated THEN <<"a", "z">> ELSE <<"a">>)
    ELSE IF HasSuffix(name, "_to") THEN <<"b">>
    ELSE IF ContainsBrackets(name) THEN <<"c", "d">>
    ELSE <<"c">>

\* req.URL.Query(): each name of the query string with its values
Queries ==
    { [n \in names |-> ParamValue(n, repeated)] :
        names \in SUBSET ParamNames, repeated \in BOOLEAN }

\* a list request arrives: FiltersFromHTTPRequest starts with no filter
FiltersStart(p) ==
    /\ pc[p] = "idle"
    /\ \E q \in Queries :
          Goto(p, "filters", [op |-> "find", query |-> q],
               [filters |-> [f \in {} |-> Nil], pending |-> DOMAIN q])
    /\ UNCHANGED <<now, customers, rentals, extended, domvars, infravars>>

\* FiltersFromHTTPRequest: one turn of the loop over the map of parameters,
\* which Go visits in an order of its choosing
FiltersParam(p) ==
    /\ pc[p] = "filters"
    /\ \E paramName \in loc[p].pending :
          LET filters == loc[p].filters
              value == req[p].query[paramName]
          IN  Goto(p, "filters", req[p],
                   [filters |-> IF isParameterAllowed(paramName)
                                THEN SetFilter(filters, cleanUpField(paramName),
                                               filterFromParamName(paramName, value, filters))
                                ELSE filters,
                    pending |-> loc[p].pending \ {paramName}])
    /\ UNCHANGED <<now, customers, rentals, extended, domvars, infravars>>

\* FiltersFromHTTPRequest returns the filters
FiltersReturn(p) ==
    /\ pc[p] = "filters"
    /\ loc[p].pending = {}
    /\ Reply(p, [op |-> "find", query |-> req[p].query, filters |-> loc[p].filters])
    /\ UNCHANGED <<now, customers, rentals, extended, domvars, infravars>>

---------------------------------------------------------------------------
(* QuerySpec: FiltersFromHTTPRequest applied to the drawn query strings *)

QueryStep(p) ==
    \/ FiltersStart(p)
    \/ FiltersParam(p)
    \/ FiltersReturn(p)

QueryNext == \E p \in SeqProcs : QueryStep(p)

QuerySpec == HttpInit /\ [][QueryNext]_vars

---------------------------------------------------------------------------
(* Claims about the domain functions, checked under DomainSpec *)

RentCalled == dcall # Nil /\ dcall.op = "Rent"
ListHasOverdue ==
    \E i \in DOMAIN din.customerRentals :
        din.customerRentals[i].Status = "OVERDUE"

\* C3: Rent checks (1) activeRental not nil, (2) len(customerRentals) >= 5,
\* (3) an OVERDUE entry, (4) customer SUSPENDED, in this order; the error is
\* that of the first check that fails and no rental is produced then.
C3_RentCheckOrder ==
    RentCalled =>
        LET a == din.activeRental # Nil
            b == Len(din.customerRentals) >= 5
            c == ListHasOverdue
            d == dcust.Status = "SUSPENDED"
        IN  /\ a => dcall.err = "catalog asset already rented"
            /\ (~a /\ b) => dcall.err = "customer max number of rentals reached"
            /\ (~a /\ ~b /\ c) =>
                   dcall.err = "the customer has already a rental in overdue"
            /\ (~a /\ ~b /\ ~c /\ d) =>
                   dcall.err = "cannot rent the asset, customer is suspended"
            /\ (a \/ b \/ c \/ d) => drental = Nil

\* all four checks fail at once and the first one answers
C3_Witness ==
    /\ RentCalled
    /\ din.activeRental # Nil
    /\ Len(din.customerRentals) >= 5
    /\ ListHasOverdue
    /\ dcust.Status = "SUSPENDED"
    /\ dcall.err = "catalog asset already rented"
    /\ drental = Nil

\* C4: with activeRental = nil, fewer than 5 customerRentals and none
\* OVERDUE, Rent succeeds if and only if customer.status = ACTIVE.
C4_AdmissionIffActive ==
    (/\ RentCalled
     /\ din.activeRental = Nil
     /\ Len(din.customerRentals) < 5
     /\ ~ListHasOverdue)
    => (dcall.err = NoErr <=> dcust.Status = "ACTIVE")

\* C10: a rental produced by a successful Rent is ACTIVE, has no returnedAt,
\* carries the ids of its inputs and has dueAt = rentedAt + 1 month exactly.
C10_RentalFields ==
    (RentCalled /\ dcall.err = NoErr) =>
        /\ drental.Status = "ACTIVE"
        /\ drental.ReturnedAt = Nil
        /\ drental.CustomerID = dcust.ID
        /\ drental.AssetID = dcall.asset
        /\ drental.DueAt = AddDate(drental.RentedAt, 1)

\* C5: RETURNED is terminal: a Return or an Extend on a rental that is
\* RETURNED fails with the already-returned error and leaves status, dueAt
\* and returnedAt as they were.
C5_ReturnedIsTerminal ==
    (/\ dcall # Nil
     /\ dcall.op \in {"Return", "Extend"}
     /\ dcall.before.Status = "RETURNED")
    => /\ dcall.err = "the rental is already returned"
       /\ drental.Status = "RETURNED"
       /\ drental.DueAt = dcall.before.DueAt
       /\ drental.ReturnedAt = dcall.before.ReturnedAt

\* a Return on a rental returned at an earlier instant has failed
C5_Witness ==
    /\ dcall # Nil
    /\ dcall.op = "Return"
    /\ dcall.before.Status = "RETURNED"
    /\ dcall.before.ReturnedAt # now
    /\ dcall.err = "the rental is already returned"

CoreCall == dcall # Nil /\ dcall.op \in {"Rent", "Return", "Extend"}
StatusBefore == IF dcall.before = Nil THEN "none" ELSE dcall.before.Status
StatusAfter == IF drental = Nil THEN "none" ELSE drental.Status

\* C6 as stated: the only status transitions of the core are ACTIVE ->
\* RETURNED by Return and ACTIVE -> ACTIVE by Extend; no core operation sets
\* OVERDUE, none changes the status of a rental that is OVERDUE.
C6_OnlyActiveTransitions ==
    CoreCall =>
        /\ (dcall.op = "Return" /\ dcall.err = NoErr) =>
               (StatusBefore = "ACTIVE" /\ StatusAfter = "RETURNED")
        /\ (dcall.op = "Extend" /\ dcall.err = NoErr) =>
               (StatusBefore = "ACTIVE" /\ StatusAfter = "ACTIVE")
        /\ StatusAfter = "OVERDUE" => StatusBefore = "OVERDUE"
        /\ StatusBefore = "OVERDUE" => StatusAfter = "OVERDUE"

\* C6 amended: Return takes a rental that is ACTIVE or OVERDUE to RETURNED,
\* Extend takes a rental that is ACTIVE or OVERDUE to ACTIVE, a failed call
\* leaves the status alone, Rent produces ACTIVE, and no core operation sets
\* a rental to OVERDUE.
C6_CoreTransitions ==
    CoreCall =>
        /\ (dcall.op = "Return" /\ dcall.err = NoErr) =>
               (StatusBefore \in {"ACTIVE", "OVERDUE"} /\ StatusAfter = "RETURNED")
        /\ (dcall.op = "Extend" /\ dcall.err = NoErr) =>
               (StatusBefore \in {"ACTIVE", "OVERDUE"} /\ StatusAfter = "ACTIVE")
        /\ (dcall.op \in {"Return", "Extend"} /\ dcall.err # NoErr) =>
               StatusAfter = StatusBefore
        /\ (dcall.op = "Rent" /\ dcall.err = NoErr) => StatusAfter = "ACTIVE"
        /\ StatusAfter = "OVERDUE" => (StatusBefore = "OVERDUE" /\ dcall.err # NoErr)

\* an Extend has taken an OVERDUE rental back to ACTIVE
C6_Witness ==
    /\ dcall # Nil
    /\ dcall.op = "Extend"
    /\ dcall.err = NoErr
    /\ dcall.before.Status = "OVERDUE"
    /\ drental.Status = "ACTIVE"

\* C7: in every state reached from a rental created by Rent through Return
\* and Extend calls, returnedAt is present if and only if status = RETURNED.
C7_ReturnedAtIffReturned ==
    drental # Nil => (drental.ReturnedAt # Nil <=> drental.Status = "RETURNED")

\* a returned rental, after an Extend on it has failed
C7_Witness ==
    /\ drental # Nil
    /\ drental.Status = "RETURNED"
    /\ drental.ReturnedAt # Nil
    /\ dcall.op = "Extend"
    /\ dcall.err # NoErr

\* whole months from a to b
monthsBetween(a, b) ==
    (b.mon - a.mon)
    - (IF b.day < a.day \/ (b.day = a.day /\ b.tk < a.tk) THEN 1 ELSE 0)

\* the number of Extend calls on r that succeed when Extend is called on it
\* again and again (a failed Extend changes nothing, so every later one fails)
RECURSIVE FurtherExtends(_)
FurtherExtends(r) ==
    IF Extend(r).err = NoErr THEN 1 + FurtherExtends(Extend(r).rental) ELSE 0

\* C8: of the Extend calls on an ACTIVE rental r at most
\* 3 - monthsBetween(r.rentedAt, r.dueAt) succeed, and an Extend whose new due
\* date would be later than rentedAt + 3 months fails with the extend-limit
\* error and leaves dueAt unchanged.
C8_ExtendBound ==
    /\ (drental # Nil /\ drental.Status = "ACTIVE") =>
           FurtherExtends(drental) <= 3 - monthsBetween(drental.RentedAt, drental.DueAt)
    /\ (/\ dcall # Nil
        /\ dcall.op = "Extend"
        /\ dcall.before.Status = "ACTIVE"
        /\ After(AddDate(dcall.before.DueAt, 1), AddDate(dcall.before.RentedAt, 3)))
       => /\ dcall.err = "extend max months reached"
          /\ drental.DueAt = dcall.before.DueAt

\* the third Extend on an ACTIVE rental has failed with the limit error
C8_Witness ==
    /\ dcall # Nil
    /\ dcall.op = "Extend"
    /\ dcall.before.Status = "ACTIVE"
    /\ dcall.err = "extend max months reached"
    /\ drental.DueAt = AddDate(AddDate(AddDate(drental.RentedAt, 1), 1), 1)

---------------------------------------------------------------------------
(* Claims about the running system *)

ActiveRows(customerID, assetID) ==
    { i \in DOMAIN rentals :
        /\ rentals[i].CustomerID = customerID
        /\ rentals[i].AssetID = assetID
        /\ rentals[i].Status = RentalStatusActive }

\* C1: in every reachable state, whatever the interleaving of the rental
\* requests (two POST /rentals for the same pair served concurrently
\* included), the store holds at most one ACTIVE rental per
\* (customerId, assetId) pair.
C1_OneActivePerPair ==
    \A c \in Customers, a \in Assets : Cardinality(ActiveRows(c, a)) <= 1

ConcurrentRows(customerID) ==
    { i \in DOMAIN rentals :
        /\ rentals[i].CustomerID = customerID
        /\ rentals[i].Status # RentalStatusReturned }

\* C2: at no time does a customer hold more than 5 rentals whose status is
\* not RETURNED, whatever the order or interleaving of the POST /rentals
\* requests made for that customer.
C2_AtMostFiveConcurrent ==
    \A c \in Customers : Cardinality(ConcurrentRows(c)) <= maxNumberOfRentals

\* the extend request of task p on a stored rental that was not returned
\* has been answered by the handler, the repository having answered
ExtendAnswered(p) ==
    /\ resp[p] # Nil
    /\ resp[p].op = "extend"
    /\ resp[p].id \in DOMAIN rentals
    /\ rentals[resp[p].id].Status # RentalStatusReturned
    /\ resp[p].code \in {204, 400}

\* C9: for a rental created by a successful POST /rentals, the first two
\* extend requests are answered 204 and the third is answered 400 with
\* "extend max months reached": no extend is granted beyond the second, and
\* an extend is refused for the limit only when two were granted before.
C9_TwoExtendsThenRefused ==
    \A p \in SeqProcs :
        ExtendAnswered(p) =>
            /\ resp[p].code = 204 => extended[resp[p].id] <= 2
            /\ resp[p].code = 400 =>
                  /\ resp[p].err = ErrExtendLimit
                  /\ extended[resp[p].id] = 2

---------------------------------------------------------------------------
(* Claims about the customer lifecycle *)

\* task p answers a POST /rentals whose reads all succeeded, for a stored
\* customer whose status in the store is st
CreateAnswers(p, st) ==
    /\ pc[p] = "create_rent"
    /\ pc'[p] = "idle"
    /\ req[p].customer_id \in DOMAIN customers
    /\ customers[req[p].customer_id].Status = st

\* no earlier admission rule of Rent applies to the request of task p
NoEarlierRule(p) ==
    /\ loc[p].activeRental = Nil
    /\ Len(loc[p].customerRentals) < maxNumberOfRentals
    /\ ~HasOverdue(loc[p].customerRentals)

C12_StatusTransitions ==
    dcust # Nil =>
        LET s == Suspend(dcust)
            u == Unsuspend(dcust)
        IN  /\ dcust.Status = CustomerStatusSuspended =>
                  /\ s.err = ErrAlreadySuspended
                  /\ s.customer.Status = CustomerStatusSuspended
            /\ dcust.Status # CustomerStatusSuspended =>
                  /\ u.err = ErrNotSuspended
                  /\ u.customer.Status = dcust.Status
                  /\ s.err = NoErr
                  /\ s.customer.Status = CustomerStatusSuspended
            /\ s.err = NoErr =>
                  /\ Unsuspend(s.customer).err = NoErr
                  /\ Unsuspend(s.customer).customer.Status = CustomerStatusActive

\* a customer that was suspended and unsuspended again
C12_Witness ==
    /\ dcust # Nil
    /\ dcust.Status = CustomerStatusActive

\* C13: every customer has status ACTIVE or SUSPENDED at all times, and a
\* customer that has just been built (BuildCustomer, onboarding.Customer,
\* POST /customers) has status ACTIVE.
C13_StatusActiveOrSuspended ==
    dcust # Nil => dcust.Status \in {CustomerStatusActive, CustomerStatusSuspended}

---------------------------------------------------------------------------
(* Claims about the HTTP layer *)

Whitelisted(r) == r.path = "/signup" \/ r.path = "/login"

Unauthorized == [code |-> 401, body |-> <<ErrBody("unauthorized")>>]

\* task p runs the AuthMiddleware layer in this step
AuthRuns(p) ==
    /\ AtLayer(p, "AuthMiddleware")
    /\ loc'[p] # loc[p]

\* C14: AuthMiddleware calls the next handler if and only if the path is
\* /signup or /login or the Authorization header holds a token that
\* DecodeAndValidate accepts; otherwise it answers 401 "unauthorized" and the
\* next handler is not invoked.
C14_AuthPassesIff ==
    [][\A p \in SeqProcs :
          AuthRuns(p) =>
              LET pass == \/ Whitelisted(req[p])
                          \/ /\ req[p].token # NoToken
                             /\ DecodeAndValidate(req[p].token, now).err = NoErr
              IN  /\ pass <=> pc'[p] = "serve"
                  /\ pass => resp'[p] = resp[p]
                  /\ ~pass => /\ pc'[p] = "idle"
                              /\ resp'[p] = Unauthorized
                              /\ loc'[p].ran = <<"AuthMiddleware">>]_vars

\* a request to /login without token went through AuthMiddleware and the
\* layer after it ran
C14_Witness ==
    \E p \in SeqProcs :
        /\ req[p] # Nil
        /\ req[p].path = "/login"
        /\ req[p].token = NoToken
        /\ Len(loc[p].ran) >= 2
        /\ loc[p].ran[1] = "AuthMiddleware"

\* the token of the request was issued by Login and has not expired
FreshLoginToken(tok, t) ==
    /\ tok # NoToken
    /\ tok # GarbageToken
    /\ tok.key = SigningKey
    /\ tok.alg = "HS256"
    /\ t < tok.exp

\* C15: a token issued by a successful Login for librarian L and passed to
\* DecodeAndValidate before its expiry, with the same signing key, is
\* accepted and yields L.id, so a request to a protected route carrying it
\* reaches its handler.
C15_TokenRoundTrip ==
    [][\A p \in SeqProcs :
          (AuthRuns(p) /\ FreshLoginToken(req[p].token, now)) =>
              /\ DecodeAndValidate(req[p].token, now).err = NoErr
              /\ DecodeAndValidate(req[p].token, now).id = req[p].token.sub
              /\ pc'[p] = "serve"]_vars

\* the request of task p is over
Served(p) ==
    /\ pc[p] = "idle"
    /\ req[p] # Nil

RanLayer(p, layer) == \E i \in DOMAIN loc[p].ran : loc[p].ran[i] = layer

\* C16: every POST or PUT request whose Content-Type is not exactly
\* application/json is answered 400 with the body
\* {"error":"Content-Type must be application/json"}; GET and DELETE requests
\* pass the guard whatever their Content-Type.
C16_ContentTypeGuard ==
    \A p \in SeqProcs :
        (Served(p) /\ RanLayer(p, "JsonContentTypeMiddleware")) =>
            IF req[p].method \in {"POST", "PUT"} /\ req[p].contentType # "application/json"
            THEN resp[p] = [code |-> 400, body |-> <<ErrBody(ErrContentType)>>]
            ELSE /\ RanLayer(p, "mux")
                 /\ resp[p].code # 400 \/ resp[p].body # <<ErrBody(ErrContentType)>>

\* C17: AuthMiddleware is the outermost layer: it is the first layer to run
\* for every request, and a request to a path that is not whitelisted
\* without a valid token is answered 401 with no other layer and no
\* controller run, whatever its method and Content-Type.
C17_AuthOutermost ==
    [][\A p \in SeqProcs :
          (pc[p] = "serve" /\ loc'[p] # loc[p]) =>
              /\ loc'[p].ran[1] = "AuthMiddleware"
              /\ ( /\ AtLayer(p, "AuthMiddleware")
                   /\ ~Whitelisted(req[p])
                   /\ DecodeAndValidate(req[p].token, now).err # NoErr )
                 => /\ loc'[p].ran = <<"AuthMiddleware">>
                    /\ pc'[p] = "idle"
                    /\ resp'[p] = Unauthorized]_vars

\* a POST without JSON Content-Type and without token to a protected path
\* was answered 401 by AuthMiddleware alone
C17_Witness ==
    \E p \in SeqProcs :
        /\ Served(p)
        /\ req[p].path = "/rentals"
        /\ req[p].method = "POST"
        /\ req[p].contentType # "application/json"
        /\ req[p].token = NoToken
        /\ loc[p].ran = <<"AuthMiddleware">>
        /\ resp[p] = Unauthorized

\* task p answers a signup request in this step
SignupAnswers(p) ==
    /\ pc[p] \in {"signup", "signup_create"}
    /\ pc'[p] = "idle"

EmailRegistered == [code |-> 409, body |-> <<ErrBody("email already registered")>>]

\* C20: every POST /signup with a complete body whose email belongs to a
\* stored librarian is answered 409 "email already registered" (a failed
\* read of the store apart) and stores no librarian, also when two signups
\* for the same email are served concurrently.
C20_DuplicateSignupConflict ==
    [][\A p \in Procs :
          ( /\ SignupAnswers(p)
            /\ req[p].body # Nil
            /\ OnboardLibrarian(NewLibrarianId, req[p].body).err = NoErr
            /\ GetLibrarianByEmail(req[p].body.Email) # Nil )
          => /\ \/ resp'[p] = EmailRegistered
                \/ resp'[p] = [code |-> 500, body |-> <<ErrBody("error getting librarian")>>]
             /\ librarians' = librarians]_vars


---------------------------------------------------------------------------
(* Claims about the shutdown *)

\* the position of an event in the log, 0 when it has not happened
LogPos(event) ==
    IF \E i \in 1..Len(app.log) : app.log[i] = event
    THEN CHOOSE i \in 1..Len(app.log) : app.log[i] = event
    ELSE 0

\* event a happened, and before event b if b happened at all
Before(a, b) == LogPos(b) # 0 => (LogPos(a) # 0 /\ LogPos(a) < LogPos(b))

\* C18: on a termination signal the shutdown steps run strictly in the order
\* isShuttingDown set to true, 5 seconds waited, HTTP Shutdown called, storage
\* closed: the storage is never closed before HTTP Shutdown has returned, and
\* HTTP Shutdown is never called before the flag is true and the 5 seconds
\* have elapsed.
C18_ShutdownOrder ==
    /\ Before("flag", "readiness_sleep")
    /\ Before("readiness_sleep", "http_shutdown_call")
    /\ Before("http_shutdown_call", "http_shutdown_return")
    /\ Before("http_shutdown_return", "db_close")
    /\ app.httpShutdownCalled => (app.isShuttingDown /\ app.waited = 5)
    /\ app.dbClosed => app.httpShutdownReturned

\* C18 witness: the storage has been closed after a shutdown of the server
\* that returned
C18_Witness ==
    /\ app.dbClosed
    /\ app.httpShutdownReturned
    /\ LogPos("db_close") # 0

\* C19: the base context of the requests is not cancelled while Shutdown is
\* draining: it is cancelled only after every in-flight request finished or
\* the 15-second drain window elapsed, and it is cancelled by the time
\* Shutdown returns, even if a request never finishes.
C19_BaseContextOutlivesDrain ==
    /\ app.baseCancelled =>
          /\ app.httpShutdownReturned
          /\ app.drained \/ app.drainSecs = 15
    /\ (app.httpShutdownCalled /\ ~app.httpShutdownReturned) => ~app.baseCancelled
    /\ app.shutdownReturned => app.baseCancelled

\* C19 witness: Shutdown has returned with the base context cancelled while
\* a request is still in flight, after the full drain window
C19_Witness ==
    /\ app.shutdownReturned
    /\ app.baseCancelled
    /\ InFlight # {}
    /\ app.drainSecs = 15


---------------------------------------------------------------------------
(* Claims about the handlers' error paths *)

\* task p answers in this step from handler step at
AnswersFrom(p, at) == pc[p] = at /\ pc'[p] = "idle"

\* C21: when a lookup by id reports the entity absent without an error (the
\* customer or the asset in POST /rentals, the rental in PUT
\* /rentals/{id}/return and /rentals/{id}/extend) the response is 404 and
\* nothing is written.
C21_AbsentEntityNotFound ==
    [][\A p \in SeqProcs :
          /\ (/\ AnswersFrom(p, "create_active")
              /\ (loc[p].customer = Nil \/ loc[p].asset = Nil)) =>
                 (resp'[p].code = 404 /\ rentals' = rentals)
          /\ (/\ AnswersFrom(p, "return_do") \/ AnswersFrom(p, "extend_do")
              /\ loc[p].ren = Nil) =>
                 (resp'[p].code = 404 /\ rentals' = rentals)]_vars


\* C22: a PUT /rentals/R/return on a rental that has already been returned is
\* answered 400 with the message of the domain rule, "the rental is already
\* returned".
C22_ReturnTwiceDomainMessage ==
    [][\A p \in SeqProcs :
          (/\ AnswersFrom(p, "return_do")
           /\ loc[p].ren # Nil
           /\ loc[p].ren.Status = RentalStatusReturned) =>
              (resp'[p].code = 400 /\ resp'[p].err = ErrAlreadyReturned)]_vars


\* the messages the handlers write when a repository call returned an error
RepositoryFailures ==
    { "error getting customer", "error getting asset",
      "error getting active rental", "error getting customer rentals",
      "error creating rental", "error getting rental",
      "error updating rental", "error updating customer" }

\* C23: in every handler the failure of a repository call, read or write, is
\* answered 500; in PUT /customers/{id}/suspend a failure while fetching or
\* updating the customer is answered 500, never 400.
C23_RepositoryFailureIs500 ==
    \A p \in SeqProcs :
        (resp[p] # Nil /\ resp[p].err \in RepositoryFailures) => resp[p].code = 500


---------------------------------------------------------------------------
(* Claims about the query filters *)

\* task p has the filters of a query that holds both foo_from and foo_to
RangeQueryDone(p) ==
    /\ resp[p] # Nil
    /\ resp[p].op = "find"
    /\ {<<"foo", "_from">>, <<"foo", "_to">>} \subseteq DOMAIN resp[p].query

\* the filter of field foo is the range from the value of foo_from to the
\* value of foo_to
RangeMerged(p) ==
    /\ <<"foo">> \in DOMAIN resp[p].filters
    /\ resp[p].filters[<<"foo">>].Type = FilterTypeRange
    /\ resp[p].filters[<<"foo">>].Value =
          RangeFilter(resp[p].query[<<"foo", "_from">>][1],
                      resp[p].query[<<"foo", "_to">>][1])

\* the other parameters of the query of task p that stand for field foo
OtherFooParams(p) ==
    { n \in DOMAIN resp[p].query \ {<<"foo", "_from">>, <<"foo", "_to">>} :
        isParameterAllowed(n) /\ cleanUpField(n) = <<"foo">> }

\* C24 as stated: for a query string that contains both foo_from=a and
\* foo_to=b FiltersFromHTTPRequest yields one filter for field foo, of type
\* RANGE with from = a and to = b, whichever parameter is processed first.
C24_RangeMergedAnyOrder ==
    \A p \in SeqProcs : RangeQueryDone(p) => RangeMerged(p)

\* C24 amended: the same, for a query string in which foo_from and foo_to
\* are the only parameters standing for field foo.
C24_RangeMergedWhenAlone ==
    \A p \in SeqProcs :
        (RangeQueryDone(p) /\ OtherFooParams(p) = {}) => RangeMerged(p)

\* C24 witness: the filters of a query with foo_from, foo_to and parameters
\* of other fields hold the merged range of foo
C24_Witness ==
    \E p \in SeqProcs :
        /\ RangeQueryDone(p)
        /\ OtherFooParams(p) = {}
        /\ <<"bar", "_from">> \in DOMAIN resp[p].query
        /\ RangeMerged(p)


---------------------------------------------------------------------------
(* Claims about the rental store under several customers and tasks *)

\* C25: an asset is actively rented by at most one customer: the rentals
\* table never holds two ACTIVE rows with the same assetId and different
\* customerIds.
C25_AssetRentedByOneCustomer ==
    \A i, j \in DOMAIN rentals :
        (/\ rentals[i].Status = RentalStatusActive
         /\ rentals[j].Status = RentalStatusActive
         /\ rentals[i].AssetID = rentals[j].AssetID) =>
            rentals[i].CustomerID = rentals[j].CustomerID


\* C26: once the stored status of a rental is RETURNED it stays RETURNED and
\* keeps its returnedAt under every interleaving of concurrent return and
\* extend requests on it: an extend that read the rental before the return
\* was written never writes it back as ACTIVE.
C26_ReturnedStaysReturned ==
    [][\A i \in DOMAIN rentals :
          rentals[i].Status = RentalStatusReturned =>
              /\ rentals'[i].Status = RentalStatusReturned
              /\ rentals'[i].ReturnedAt = rentals[i].ReturnedAt]_vars


---------------------------------------------------------------------------
(* Claims about the content-type guard *)

\* the content-type guard has run for the request of task p and has written
\* its 400
GuardRejected(p) ==
    /\ req[p] # Nil
    /\ loc[p] # Nil
    /\ RanLayer(p, "JsonContentTypeMiddleware")
    /\ req[p].method \in {"POST", "PUT"}
    /\ req[p].contentType # "application/json"

\* C27: a POST or PUT request that the content-type guard rejects with 400 is
\* not passed on: the downstream handler is never invoked for it and no
\* second response is written.
C27_RejectedNotPassedOn ==
    \A p \in SeqProcs :
        GuardRejected(p) =>
            /\ ~RanLayer(p, "mux")
            /\ pc[p] = "idle"
            /\ resp[p] = [code |-> 400, body |-> <<ErrBody(ErrContentType)>>]


---------------------------------------------------------------------------
(* Claims about rentals and the customer's suspension *)

\* C28: no rental is stored for a customer whose stored status is SUSPENDED
\* at the moment the rental is written: a POST /rentals that overlaps a PUT
\* /customers/C/suspend stores its rental before the suspension is stored,
\* or is rejected.
C28_NoRentalWhileSuspended ==
    [][Len(rentals') > Len(rentals) =>
          customers[rentals'[Len(rentals')].CustomerID].Status
              # CustomerStatusSuspended]_vars


---------------------------------------------------------------------------
(* Claims about the handlers' writes *)

\* the domain call of the handler step that task p is at returns an error
DomainCallFails(p) ==
    \/ /\ pc[p] = "create_rent"
       /\ Rent(loc[p].customer, loc[p].asset, loc[p].activeRental,
               loc[p].customerRentals, NewRentalId, now, now).err # NoErr
    \/ /\ pc[p] = "return_do"
       /\ loc[p].ren # Nil
       /\ Return(loc[p].ren, now).err # NoErr
    \/ /\ pc[p] = "extend_do"
       /\ loc[p].ren # Nil
       /\ Extend(loc[p].ren).err # NoErr
    \/ /\ pc[p] = "suspend_do"
       /\ loc[p].customer # Nil
       /\ Suspend(loc[p].customer).err # NoErr
    \/ /\ pc[p] = "unsuspend_do"
       /\ loc[p].customer # Nil
       /\ Unsuspend(loc[p].customer).err # NoErr

\* C29: when the domain call inside a handler fails (Rent, Return, Extend,
\* Suspend or Unsuspend returns an error) the handler performs no repository
\* write: the stored state after the request equals the stored state before
\* it.
C29_FailedCallWritesNothing ==
    [][\A p \in SeqProcs :
          (DomainCallFails(p) /\ pc'[p] = "idle") =>
              /\ rentals' = rentals
              /\ customers' = customers]_vars

\* C29 witness: a return of a rental that is stored RETURNED has been refused
C29_Witness ==
    \E p \in SeqProcs :
        /\ resp[p] # Nil
        /\ resp[p].op = "return"
        /\ resp[p].code = 400
        /\ GetRental(resp[p].id) # Nil
        /\ GetRental(resp[p].id).Status = RentalStatusReturned


---------------------------------------------------------------------------
(* Claims about the rental limit *)

\* the customer of the request of task p is not suspended, does not hold the
\* asset, and has neither an ACTIVE nor an OVERDUE rental
NothingOutstanding(p) ==
    /\ loc[p].customer.Status # CustomerStatusSuspended
    /\ loc[p].activeRental = Nil
    /\ \A i \in DOMAIN loc[p].customerRentals :
          loc[p].customerRentals[i].Status = RentalStatusReturned

\* C30: returned rentals do not count towards the 5-rental limit: a customer
\* who is not suspended and has no ACTIVE and no OVERDUE rental is admitted
\* by POST /rentals however many RETURNED rentals they have.
C30_ReturnedRentalsDoNotCount ==
    [][\A p \in SeqProcs :
          (AnswersFrom(p, "create_rent") /\ NothingOutstanding(p)) =>
              resp'[p].code # 400]_vars

====
